---- MODULE Spec2Model ----
(***************************************************************************)
(* Model of src/src/logic_engine.py: flat-term unification and the         *)
(* depth-bounded backtracking proof search prove / prove.dfs.              *)
(*                                                                         *)
(* A Term is a Python str; it is modelled as the sequence of its           *)
(* characters so that is_var inspects the first character as the code      *)
(* does.  An Atom is [pred, args], a Rule is [head, body].  A Subst (a     *)
(* Python dict) is a function whose DOMAIN is the set of bound keys.       *)
(* Optional[Subst] is [some |-> TRUE, val |-> s] or [some |-> FALSE].      *)
(* A trace line (an f-string in the code) is kept in structured form       *)
(* [kind, atoms]: the line's label and the atoms it prints, in order.      *)
(***************************************************************************)
EXTENDS Integers, Sequences, FiniteSets, TLC

\* the proof search (prove)
VARIABLES program, query, max_depth, stack, pc, ret, proved, trace, depth_hit

\* a caller of unify_terms / unify_atoms: the substitution it holds and its
\* last call
VARIABLES held, call

\* a caller of the parser and of the solver wrapper: the texts it passes and
\* what it got back
VARIABLES payload, out

\* a run of the graph of build_langgraph_app: the LGState dict, the node the
\* run is at, and how often each node has run
VARIABLES use_real_llm, lg, at, visits

engine_vars == <<program, query, max_depth, stack, pc, ret, proved, trace, depth_hit>>

unify_vars == <<held, call>>

parse_vars == <<payload, out>>

graph_vars == <<use_real_llm, lg, at, visits>>

vars == <<engine_vars, unify_vars, parse_vars, graph_vars>>

----------------------------------------------------------------------------
(* Terms, atoms, rules *)

Upper ==
    {"A", "B", "C", "D", "E", "F", "G", "H", "I", "J", "K", "L", "M",
     "N", "O", "P", "Q", "R", "S", "T", "U", "V", "W", "X", "Y", "Z"}

Atom(pred, args) == [pred |-> pred, args |-> args]

Rule(head, body) == [head |-> head, body |-> body]

is_var(t) == Len(t) > 0 /\ (t[1] \in Upper \/ t[1] = "_")

None == [some |-> FALSE]

Some(s) == [some |-> TRUE, val |-> s]

EmptySubst == [x \in {} |-> x]

\* s2 = dict(s); s2[k] = v
Bind(s, k, v) == [x \in (DOMAIN s) \cup {k} |-> IF x = k THEN v ELSE s[x]]

RECURSIVE apply_subst_term(_, _)
apply_subst_term(t, s) ==
    IF is_var(t) /\ t \in DOMAIN s /\ s[t] /= t
    THEN apply_subst_term(s[t], s)
    ELSE t

apply_subst_atom(a, s) ==
    Atom(a.pred, [k \in 1..Len(a.args) |-> apply_subst_term(a.args[k], s)])

\* A plausible slip: two distinct constants are reported as unified.
unify_terms_lenient(t1, t2, s) ==
    LET r1 == apply_subst_term(t1, s)
        r2 == apply_subst_term(t2, s)
    IN  IF r1 = r2 THEN Some(s)
        ELSE IF is_var(r1) THEN Some(Bind(s, r1, r2))
        ELSE IF is_var(r2) THEN Some(Bind(s, r2, r1))
        ELSE Some(s)

\* A plausible slip: the branch binding the second term is missing.
unify_terms_oneway(t1, t2, s) ==
    LET r1 == apply_subst_term(t1, s)
        r2 == apply_subst_term(t2, s)
    IN  IF r1 = r2 THEN Some(s)
        ELSE IF is_var(r1) THEN Some(Bind(s, r1, r2))
        ELSE None

\* A plausible slip: the test for identical resolved terms is missing.
unify_terms_noeq(t1, t2, s) ==
    LET r1 == apply_subst_term(t1, s)
        r2 == apply_subst_term(t2, s)
    IN  IF is_var(r1) THEN Some(Bind(s, r1, r2))
        ELSE IF is_var(r2) THEN Some(Bind(s, r2, r1))
        ELSE IF r1 = r2 THEN Some(s)
        ELSE None

unify_terms(t1, t2, s) ==
    LET r1 == apply_subst_term(t1, s)
        r2 == apply_subst_term(t2, s)
    IN  IF r1 = r2 THEN Some(s)
        ELSE IF is_var(r1) THEN Some(Bind(s, r1, r2))
        ELSE IF is_var(r2) THEN Some(Bind(s, r2, r1))
        ELSE None

\* the for loop of unify_atoms over zip(a1.args, a2.args), from pair k on
RECURSIVE unify_args(_, _, _, _)
unify_args(xs, ys, k, s) ==
    IF k > Len(xs) THEN Some(s)
    ELSE LET r == unify_terms(xs[k], ys[k], s)
         IN  IF ~r.some THEN None ELSE unify_args(xs, ys, k + 1, r.val)

\* the number of argument pairs the for loop of unify_atoms passes to
\* unify_terms, from pair k on
RECURSIVE pairs_examined(_, _, _, _)
pairs_examined(xs, ys, k, s) ==
    IF k > Len(xs) THEN 0
    ELSE LET r == unify_terms(xs[k], ys[k], s)
         IN  IF ~r.some THEN 1 ELSE 1 + pairs_examined(xs, ys, k + 1, r.val)

\* A plausible slip: the arity test is missing, and zip stops at the
\* shorter argument list.
unify_atoms_noarity(a1, a2, s) ==
    LET m == IF Len(a1.args) < Len(a2.args) THEN Len(a1.args) ELSE Len(a2.args)
    IN  IF a1.pred /= a2.pred
        THEN None
        ELSE unify_args(SubSeq(a1.args, 1, m), SubSeq(a2.args, 1, m), 1, s)

unify_atoms(a1, a2, s) ==
    IF a1.pred /= a2.pred \/ Len(a1.args) /= Len(a2.args)
    THEN None
    ELSE unify_args(a1.args, a2.args, 1, s)

----------------------------------------------------------------------------
(* Trace lines *)

Line(kind, atoms) == [kind |-> kind, atoms |-> atoms]

\* f"Goal: {goal}"
GoalLine(goal) == Line("Goal", <<goal>>)

\* f"  Matched FACT: {head_s}"
FactLine(head_s) == Line("FACT", <<head_s>>)

\* f"  Matched RULE: {head_s} :- {body_str}"
RuleLine(head_s, body_s) == Line("RULE", <<head_s>> \o body_s)

\* f"  Fail: {goal}"
FailLine(goal) == Line("Fail", <<goal>>)

\* f"Depth limit reached at goals: {[...]}"
DepthLine(goals_s) == Line("Depth", goals_s)

apply_subst_atoms(as, s) == [k \in 1..Len(as) |-> apply_subst_atom(as[k], s)]

\* the line appended after "Goal:" when clause r matches under s2
MatchLine(r, s2) ==
    IF r.body = <<>>
    THEN FactLine(apply_subst_atom(r.head, s2))
    ELSE RuleLine(apply_subst_atom(r.head, s2), apply_subst_atoms(r.body, s2))

Reverse(sq) == [k \in 1..Len(sq) |-> sq[Len(sq) + 1 - k]]

\* A plausible slip: the body atoms are pushed in reverse order.
NextGoals_reversed(r, goals) == Reverse(r.body) \o Tail(goals)

\* the goal list of the recursive call after clause r matched
NextGoals(r, goals) == r.body \o Tail(goals)

\* A plausible slip: the depth check is off by one.
DepthExceeded_offbyone(depth, md) == depth >= md

\* if depth > max_depth
DepthExceeded(depth, md) == depth > md

----------------------------------------------------------------------------
(* prove / dfs as the recursive function the code defines *)

Result(res, tr) == [res |-> res, tr |-> tr]

RECURSIVE dfs(_, _, _, _, _, _)
RECURSIVE try_clauses(_, _, _, _, _, _, _)

\* the for loop of dfs from clause i on, and the return after the loop
try_clauses(P, md, goals, s, depth, tr, i) ==
    LET goal == apply_subst_atom(goals[1], s)
    IN  IF i > Len(P)
        THEN Result(None, tr \o <<GoalLine(goal), FailLine(goal)>>)
        ELSE LET r  == P[i]
                 u  == unify_atoms(r.head, goal, s)
             IN  IF ~u.some
                 THEN try_clauses(P, md, goals, s, depth, tr, i + 1)
                 ELSE LET t2  == tr \o <<GoalLine(goal), MatchLine(r, u.val)>>
                          sub == dfs(P, md, NextGoals(r, goals), u.val, depth + 1, t2)
                      IN  IF sub.res.some
                          THEN sub
                          ELSE try_clauses(P, md, goals, s, depth, tr, i + 1)

dfs(P, md, goals, s, depth, tr) ==
    IF DepthExceeded(depth, md)
    THEN Result(None, tr \o <<DepthLine(apply_subst_atoms(goals, s))>>)
    ELSE IF goals = <<>>
    THEN Result(Some(s), tr)
    ELSE try_clauses(P, md, goals, s, depth, tr, 1)

\* prove(program, query, max_depth) -> (proved, trace)
prove(P, q, md) ==
    LET r == dfs(P, md, <<q>>, EmptySubst, 0, <<>>)
    IN  [proved |-> r.res.some, trace |-> r.tr]

----------------------------------------------------------------------------
(* Inputs *)

MaxClauses == 2

MaxDepth == 4

ta == <<"a">>
tb == <<"b">>
tX == <<"X">>
tY == <<"Y">>
tZ == <<"Z">>
tV == <<"V">>
john == <<"j", "o", "h", "n">>
mary == <<"m", "a", "r", "y">>
emma == <<"e", "m", "m", "a">>

p(t) == Atom("p", <<t>>)
q0 == Atom("q", <<>>)
z0 == Atom("z", <<>>)
parent(x, y) == Atom("parent", <<x, y>>)
grandparent(x, y) == Atom("grandparent", <<x, y>>)

ClauseUniverse ==
    { Rule(p(ta), <<>>),                  \* p(a).
      Rule(p(tb), <<>>),                  \* p(b).
      Rule(p(tX), <<>>),                  \* p(X).
      Rule(p(tX), <<p(tX)>>),             \* p(X) :- p(X).
      Rule(p(tb), <<z0>>),                \* p(b) :- z.
      Rule(p(ta), <<p(tb)>>),             \* p(a) :- p(b).
      Rule(q0, <<p(ta), p(tb)>>) }        \* q :- p(a), p(b).

QueryUniverse == { p(ta), p(tb), p(tV), q0 }

SelfRefProgram == << Rule(p(tX), <<p(tX)>>) >>

GrandparentProgram ==
    << Rule(parent(john, mary), <<>>),
       Rule(parent(mary, emma), <<>>),
       Rule(grandparent(tX, tZ), <<parent(tX, tY), parent(tY, tZ)>>) >>

GrandparentQueries == { grandparent(john, emma), grandparent(emma, john) }

Programs == UNION { [1..n -> ClauseUniverse] : n \in 0..MaxClauses }

DepthValues == {-1} \cup (0..MaxDepth)

----------------------------------------------------------------------------
(* prove as a state machine: the call stack of dfs, one frame per call.    *)
(* A frame holds the call's arguments and i, the position of its for loop. *)
(* pc: "call" = at the top of the newest call, "loop" = at the head of its *)
(* for loop, "ret" = a call has just returned ret to its caller, "done" =  *)
(* prove has returned.  depth_hit records that some call returned at the   *)
(* depth check.                                                            *)

Frame(goals, s, depth, tr) ==
    [goals |-> goals, s |-> s, depth |-> depth, trace |-> tr, i |-> 1]

Top == stack[Len(stack)]

Pop == SubSeq(stack, 1, Len(stack) - 1)

TopGoal == apply_subst_atom(Top.goals[1], Top.s)

\* A plausible slip: the bindings of the clause being tried are written into
\* the caller's own substitution (a dict updated in place).
Suspend_leaky(f, s2) == [f EXCEPT !.s = s2]

\* the caller's frame while the recursive call for a clause matched under s2 runs
Suspend(f, s2) == f

\* A plausible slip: the loop position is not moved on.
Advance_stuck(f) == f

\* A plausible slip: the loop position moves on by two, passing over a clause.
Advance_skip(f) == [f EXCEPT !.i = @ + 2]

\* the caller's frame when it moves on to the next clause
Advance(f) == [f EXCEPT !.i = @ + 1]

\* the variables of the other callers while one of them runs
NoCall == [fn |-> "none"]

UnifyIdle == held = EmptySubst /\ call = NoCall

ParseIdle == payload = NoCall /\ out = NoCall

GraphIdle == use_real_llm = FALSE /\ lg = NoCall /\ at = "none" /\ visits = NoCall

EngineIdle ==
    /\ program = <<>> /\ query = q0 /\ max_depth = 0 /\ stack = <<>>
    /\ pc = "idle" /\ ret = Result(None, <<>>) /\ proved = FALSE
    /\ trace = <<>> /\ depth_hit = FALSE

Init ==
    /\ UnifyIdle /\ ParseIdle /\ GraphIdle
    /\ \/ program \in Programs /\ query \in QueryUniverse
       \/ program = GrandparentProgram /\ query \in GrandparentQueries
    /\ max_depth \in DepthValues
    /\ stack = << Frame(<<query>>, EmptySubst, 0, <<>>) >>
    /\ pc = "call"
    /\ ret = Result(None, <<>>)
    /\ proved = FALSE
    /\ trace = <<>>
    /\ depth_hit = FALSE

\* if depth > max_depth: return None, trace + [Depth limit ...]
DepthLimit ==
    /\ pc = "call"
    /\ DepthExceeded(Top.depth, max_depth)
    /\ ret' = Result(None, Top.trace \o <<DepthLine(apply_subst_atoms(Top.goals, Top.s))>>)
    /\ stack' = Pop
    /\ pc' = "ret"
    /\ depth_hit' = TRUE
    /\ UNCHANGED <<program, query, max_depth, proved, trace>>
    /\ UNCHANGED <<unify_vars, parse_vars, graph_vars>>

\* if not goals: return s, trace
EmptyGoals ==
    /\ pc = "call"
    /\ ~DepthExceeded(Top.depth, max_depth)
    /\ Top.goals = <<>>
    /\ ret' = Result(Some(Top.s), Top.trace)
    /\ stack' = Pop
    /\ pc' = "ret"
    /\ UNCHANGED <<program, query, max_depth, proved, trace, depth_hit>>
    /\ UNCHANGED <<unify_vars, parse_vars, graph_vars>>

\* goal = apply_subst_atom(goals[0], s); enter the for loop
SelectGoal ==
    /\ pc = "call"
    /\ ~DepthExceeded(Top.depth, max_depth)
    /\ Top.goals /= <<>>
    /\ pc' = "loop"
    /\ UNCHANGED <<program, query, max_depth, stack, ret, proved, trace, depth_hit>>
    /\ UNCHANGED <<unify_vars, parse_vars, graph_vars>>

\* s2 is None: continue
SkipClause ==
    /\ pc = "loop"
    /\ Top.i <= Len(program)
    /\ ~unify_atoms(program[Top.i].head, TopGoal, Top.s).some
    /\ stack' = [stack EXCEPT ![Len(stack)] = Advance(Top)]
    /\ UNCHANGED <<program, query, max_depth, pc, ret, proved, trace, depth_hit>>
    /\ UNCHANGED <<unify_vars, parse_vars, graph_vars>>

\* the head unifies: call dfs on the remaining goals (fact) or on the
\* body followed by the remaining goals (rule)
MatchClause ==
    /\ pc = "loop"
    /\ Top.i <= Len(program)
    /\ LET r == program[Top.i]
           u == unify_atoms(r.head, TopGoal, Top.s)
       IN  /\ u.some
           /\ stack' = [stack EXCEPT ![Len(stack)] = Suspend(Top, u.val)]
                       \o << Frame(NextGoals(r, Top.goals), u.val, Top.depth + 1,
                                   Top.trace \o <<GoalLine(TopGoal), MatchLine(r, u.val)>>) >>
    /\ pc' = "call"
    /\ UNCHANGED <<program, query, max_depth, ret, proved, trace, depth_hit>>
    /\ UNCHANGED <<unify_vars, parse_vars, graph_vars>>

\* if res is not None: return res, tr
ReturnSuccess ==
    /\ pc = "ret"
    /\ stack /= <<>>
    /\ ret.res.some
    /\ stack' = Pop
    /\ UNCHANGED <<program, query, max_depth, pc, ret, proved, trace, depth_hit>>
    /\ UNCHANGED <<unify_vars, parse_vars, graph_vars>>

\* res is None: go on with the next clause
ReturnFailure ==
    /\ pc = "ret"
    /\ stack /= <<>>
    /\ ~ret.res.some
    /\ stack' = [stack EXCEPT ![Len(stack)] = Advance(Top)]
    /\ pc' = "loop"
    /\ UNCHANGED <<program, query, max_depth, ret, proved, trace, depth_hit>>
    /\ UNCHANGED <<unify_vars, parse_vars, graph_vars>>

\* the loop is over: return None, trace + [Goal, Fail]
Exhausted ==
    /\ pc = "loop"
    /\ Top.i > Len(program)
    /\ ret' = Result(None, Top.trace \o <<GoalLine(TopGoal), FailLine(TopGoal)>>)
    /\ stack' = Pop
    /\ pc' = "ret"
    /\ UNCHANGED <<program, query, max_depth, proved, trace, depth_hit>>
    /\ UNCHANGED <<unify_vars, parse_vars, graph_vars>>

\* subst, trace = dfs([query], {}, 0, []); return (subst is not None), trace
Finish ==
    /\ pc = "ret"
    /\ stack = <<>>
    /\ proved' = ret.res.some
    /\ trace' = ret.tr
    /\ pc' = "done"
    /\ UNCHANGED <<program, query, max_depth, stack, ret, depth_hit>>
    /\ UNCHANGED <<unify_vars, parse_vars, graph_vars>>

Next ==
    \/ DepthLimit
    \/ EmptyGoals
    \/ SelectGoal
    \/ SkipClause
    \/ MatchClause
    \/ ReturnSuccess
    \/ ReturnFailure
    \/ Exhausted
    \/ Finish

Spec == Init /\ [][Next]_vars

\* prove is a plain synchronous call: it keeps running until it returns
LiveSpec == Spec /\ WF_vars(Next)

Done == pc = "done"

\* the state machine computes what the recursive function computes
MachineAgreesWithFunction ==
    Done => [proved |-> proved, trace |-> trace] = prove(program, query, max_depth)

----------------------------------------------------------------------------
(* Reference semantics used to state C1 and C2: ground SLD derivations in  *)
(* which every use of a clause takes its own instance of the clause.  By   *)
(* the lifting lemma a ground atom has an SLD refutation of n resolution   *)
(* steps iff it has a ground proof tree with n clause instances.           *)

Range(f) == {f[k] : k \in DOMAIN f}

VarsOf(atoms) == {t \in UNION {Range(a.args) : a \in atoms} : is_var(t)}

ConstsOf(atoms) == {t \in UNION {Range(a.args) : a \in atoms} : ~is_var(t)}

AtomsOfRule(r) == {r.head} \cup Range(r.body)

\* the constants of the program and the query, and one more
Herbrand(P, qy) ==
    ConstsOf(UNION {AtomsOfRule(r) : r \in Range(P)} \cup {qy}) \cup {<<"c">>}

\* all ground instances over U of the atoms given as a sequence
GroundAtomInstances(a, U) ==
    {apply_subst_atom(a, th) : th \in [VarsOf({a}) -> U]}

GroundRuleInstances(P, U) ==
    UNION { { Rule(apply_subst_atom(r.head, th), apply_subst_atoms(r.body, th))
              : th \in [VarsOf(AtomsOfRule(r)) -> U] }
            : r \in Range(P) }

MinOf(S) == CHOOSE x \in S : \A y \in S : x <= y

RECURSIVE SumCost(_, _, _)
SumCost(c, body, k) ==
    IF k > Len(body) THEN 0 ELSE c[body[k]] + SumCost(c, body, k + 1)

\* StepCost(GI, A, n, k)[a]: the least number of clause instances in a proof
\* tree of height <= k for the ground atom a, or n + 1 if there is none
\* with at most n
RECURSIVE StepCost(_, _, _, _)
StepCost(GI, A, n, k) ==
    IF k = 0 THEN [a \in A |-> n + 1]
    ELSE LET c == StepCost(GI, A, n, k - 1)
         IN  [a \in A |->
                MinOf({n + 1} \cup
                      {1 + SumCost(c, g.body, 1) : g \in {h \in GI : h.head = a}})]

\* some ground instance of qy has an SLD derivation from P of at most n steps
DerivableWithin(P, qy, n) ==
    /\ n >= 1
    /\ LET U  == Herbrand(P, qy)
           GI == GroundRuleInstances(P, U)
           QI == GroundAtomInstances(qy, U)
           A  == QI \cup UNION {AtomsOfRule(g) : g \in GI}
           c  == StepCost(GI, A, n, n)
       IN  \E a \in QI : c[a] <= n

IsGround(a) == VarsOf({a}) = {}

----------------------------------------------------------------------------
(* Claims *)

\* C1 (as claimed): a ground query with an SLD derivation of at most
\* max_depth resolution steps, each clause use binding its variables
\* independently, is proved.
C1_Completeness ==
    (Done /\ IsGround(query) /\ DerivableWithin(program, query, max_depth))
        => proved

\* C2: prove returns proved = true only if some instance of the query is a
\* consequence of the program (it has a derivation, within max_depth steps).
C2_Soundness ==
    (Done /\ proved) => DerivableWithin(program, query, max_depth)

\* C2 witness: a proof through a rule has been returned
C2_Witness ==
    /\ Done /\ proved
    /\ \E k \in 1..Len(trace) : trace[k].kind = "RULE"

\* C3: prove terminates: every run reaches the return of prove; no call is
\* made from a call whose depth counter exceeds max_depth; and with the
\* program p(X) :- p(X). and the query p(a) the result is proved = false.
C3_Termination ==
    /\ <>Done
    /\ [](\A k \in 1..(Len(stack) - 1) : stack[k].depth <= max_depth)
    /\ []((Done /\ program = SelfRefProgram /\ query = p(ta)) => ~proved)

\* C3 witness: the self-referential program has run into the depth limit
\* at the largest max_depth and prove has returned
C3_Witness ==
    /\ Done /\ ~proved /\ depth_hit
    /\ program = SelfRefProgram /\ query = p(ta) /\ max_depth = MaxDepth

----------------------------------------------------------------------------
(* Helpers for the claims about clause choice *)

IsFact(r) == r.body = <<>>

\* clause k of P, tried first for the top goal qy, leads to a proof
ClauseCompletes(P, md, qy, k) ==
    /\ ~DepthExceeded(0, md)
    /\ LET u == unify_atoms(P[k].head, qy, EmptySubst)
       IN  /\ u.some
           /\ dfs(P, md, NextGoals(P[k], <<qy>>), u.val, 1, <<>>).res.some

Completing(P, md, qy) == {k \in 1..Len(P) : ClauseCompletes(P, md, qy, k)}

\* the Matched line clause k gives for the top goal qy
TopMatchLine(P, qy, k) == MatchLine(P[k], unify_atoms(P[k].head, qy, EmptySubst).val)

SwapClauses(P, i, j) == [P EXCEPT ![i] = P[j], ![j] = P[i]]

HasFact(P, qy) == \E k \in 1..Len(P) : P[k] = Rule(qy, <<>>)

InProgramOrder ==
    \A k \in 1..Len(stack) :
        /\ k <= Len(stack') => stack'[k].i \in {stack[k].i, stack[k].i + 1}
        /\ (pc = "call" /\ k = Len(stack)) => stack[k].i = 1

\* once a call has returned a substitution no further clause is tried
FirstSolutionWins ==
    (pc = "ret" /\ ret.res.some)
        => (pc' \in {"ret", "done"} /\ ret' = ret /\ Len(stack') <= Len(stack))

\* C5 (as claimed): the Matched line for the query names the first clause
\* that completes the proof, and swapping two different clauses that each
\* complete it changes the trace but not the result.
C5_ClauseOrder ==
    Done =>
        LET C == Completing(program, max_depth, query)
        IN  \A i \in C : \A j \in C :
                (i < j /\ program[i] /= program[j]) =>
                    LET sw == prove(SwapClauses(program, i, j), query, max_depth)
                    IN  /\ trace[2] = TopMatchLine(program, query, MinOf(C))
                        /\ sw.proved = proved
                        /\ sw.trace /= trace

\* C5 (amended): clauses are tried in program order and the first proof is
\* returned; the Matched line for the query is the one of the first clause
\* that completes the proof; swapping that clause with a later one that
\* completes it too never changes the result, and changes the trace when
\* the two clauses give different Matched lines for the goal.
C5_ClauseOrderAmended ==
    /\ [][InProgramOrder /\ FirstSolutionWins]_vars
    /\ [](Done =>
            LET C == Completing(program, max_depth, query)
            IN  /\ proved <=> C /= {}
                /\ \A j \in C :
                     LET i  == MinOf(C)
                         sw == prove(SwapClauses(program, i, j), query, max_depth)
                     IN  /\ trace[2] = TopMatchLine(program, query, i)
                         /\ sw.proved = proved
                         /\ TopMatchLine(program, query, i) /= TopMatchLine(program, query, j)
                                => sw.trace /= trace)

\* C5 witness: two clauses with different Matched lines each complete the
\* proof and the trace shows the first
C5_Witness ==
    /\ Done /\ proved
    /\ \E i, j \in Completing(program, max_depth, query) :
          /\ i < j
          /\ TopMatchLine(program, query, i) /= TopMatchLine(program, query, j)
          /\ trace[2] = TopMatchLine(program, query, i)

----------------------------------------------------------------------------
\* the resolved first goal of frame f
FrameGoal(f) == apply_subst_atom(f.goals[1], f.s)

\* every call below the newest one is waiting in its loop at clause i, and
\* its callee was given the result of unifying that clause's head with the
\* caller's goal under the caller's own substitution
CalleeFromCallerSubst ==
    \A k \in 1..(Len(stack) - 1) :
        LET f == stack[k]
            u == unify_atoms(program[f.i].head, FrameGoal(f), f.s)
        IN  u.some /\ stack[k + 1].s = u.val

\* a call's substitution, goals and trace never change while it is live
FramesKeepSubst ==
    \A k \in 1..Len(stack) :
        k <= Len(stack') =>
            /\ stack'[k].s = stack[k].s
            /\ stack'[k].goals = stack[k].goals
            /\ stack'[k].trace = stack[k].trace

BacktrackProgram == << Rule(p(tb), <<z0>>), Rule(p(ta), <<>>) >>

\* C6: after a clause whose head unified has failed downstream, the next
\* clause is unified against the substitution as it was before; no binding
\* of an abandoned branch reaches a later branch or the final substitution.
\* With p(b) :- z.  p(a).  and the query p(V): the first clause binds V to b
\* and fails, the second succeeds binding V to a.
C6_Backtracking ==
    /\ [][FramesKeepSubst]_vars
    /\ []CalleeFromCallerSubst
    /\ []((pc = "ret" /\ stack = <<>> /\ max_depth >= 1
           /\ program = BacktrackProgram /\ query = p(tV))
             => (ret.res.some /\ ret.res.val = Bind(EmptySubst, tV, ta)
                 /\ ret.tr = <<GoalLine(p(tV)), FactLine(p(ta))>>))

\* C6 witness: the first clause has bound V to b and failed, and the proof
\* through the second clause has been returned
C6_Witness ==
    /\ Done /\ proved /\ program = BacktrackProgram /\ query = p(tV)
    /\ ret.res.val = Bind(EmptySubst, tV, ta)

----------------------------------------------------------------------------
TermUniverse == {ta, tb, tX, tY, tV}

\* a and b resolve under s to two different unbound variables
BothUnbound(a, b, s) ==
    LET ra == apply_subst_term(a, s)
        rb == apply_subst_term(b, s)
    IN  is_var(ra) /\ is_var(rb) /\ ra /= rb

\* the substitutions the search builds: each is the argument s of some
\* call of dfs, seen here when that call starts
LiveSubsts == IF pc = "call" THEN {Top.s} ELSE {}

\* C7 (as claimed): unify_terms(a, b, s) succeeds iff unify_terms(b, a, s)
\* does, and then every term resolves to the same value under both results.
C7_Symmetry ==
    \A s \in LiveSubsts : \A a \in TermUniverse : \A b \in TermUniverse :
        LET r1 == unify_terms(a, b, s)
            r2 == unify_terms(b, a, s)
        IN  /\ r1.some <=> r2.some
            /\ r1.some =>
                 \A t \in TermUniverse :
                     apply_subst_term(t, r1.val) = apply_subst_term(t, r2.val)

\* C7 (amended): success is symmetric; each result makes a and b resolve to
\* one value; the two results are the same substitution unless a and b
\* resolve under s to two different unbound variables x and y, and then one
\* result binds x to y and the other y to x, so a term resolves to the same
\* value under both or to y under the first and x under the second.
C7_SymmetryAmended ==
    \A s \in LiveSubsts : \A a \in TermUniverse : \A b \in TermUniverse :
        LET r1 == unify_terms(a, b, s)
            r2 == unify_terms(b, a, s)
            x  == apply_subst_term(a, s)
            y  == apply_subst_term(b, s)
        IN  /\ r1.some <=> r2.some
            /\ r1.some =>
                 /\ apply_subst_term(a, r1.val) = apply_subst_term(b, r1.val)
                 /\ apply_subst_term(a, r2.val) = apply_subst_term(b, r2.val)
                 /\ ~BothUnbound(a, b, s) => r1.val = r2.val
                 /\ BothUnbound(a, b, s) =>
                      /\ r1.val = Bind(s, x, y)
                      /\ r2.val = Bind(s, y, x)
                      /\ \A t \in TermUniverse :
                           \/ apply_subst_term(t, r1.val) = apply_subst_term(t, r2.val)
                           \/ /\ apply_subst_term(t, r1.val) = y
                              /\ apply_subst_term(t, r2.val) = x

\* C7 witness: under a substitution built by the search, a bound variable
\* and an unbound one resolve to two different unbound variables and unify
C7_Witness ==
    \E s \in LiveSubsts :
        /\ s /= EmptySubst
        /\ \E a \in DOMAIN s : \E b \in TermUniverse :
              /\ a \in TermUniverse
              /\ BothUnbound(a, b, s)
              /\ unify_terms(a, b, s).some /\ unify_terms(b, a, s).some

----------------------------------------------------------------------------
\* goal line atom g is the pending goal pat as resolved when it was selected
ResolvedFrom(pat, g) ==
    /\ g.pred = pat.pred
    /\ Len(g.args) = Len(pat.args)
    /\ \A k \in 1..Len(pat.args) : ~is_var(pat.args[k]) => g.args[k] = pat.args[k]

\* replay of a successful trace from line k on: every Goal line is the
\* leftmost pending goal, and a match replaces it by the body it prints
RECURSIVE SelectionOrder(_, _, _)
SelectionOrder(tr, k, pending) ==
    IF k > Len(tr) THEN pending = <<>>
    ELSE /\ k + 1 <= Len(tr)
         /\ pending /= <<>>
         /\ tr[k].kind = "Goal"
         /\ ResolvedFrom(pending[1], tr[k].atoms[1])
         /\ tr[k + 1].kind \in {"FACT", "RULE"}
         /\ SelectionOrder(tr, k + 2, Tail(tr[k + 1].atoms) \o Tail(pending))

GrandparentTrace ==
    << GoalLine(grandparent(john, emma)),
       RuleLine(grandparent(john, emma), <<parent(john, tY), parent(tY, emma)>>),
       GoalLine(parent(john, tY)),
       FactLine(parent(john, mary)),
       GoalLine(parent(mary, emma)),
       FactLine(parent(mary, emma)) >>

\* the number of goal expansions in the proof of grandparent(john, emma)
GrandparentSteps == 1 + Len(GrandparentProgram[3].body)

\* C8: in the trace of a successful proof the Goal lines are in selection
\* order, leftmost pending goal first, a rule's body atoms left to right
\* before the goals pending before it; for the grandparent program and the
\* query grandparent(john, emma) the result is proved = true with the top
\* goal, the rule match, parent(john, Y) matched with Y = mary, and
\* parent(mary, emma) matched as a fact, in this order (max_depth allowing
\* the three expansions).
C8_GoalOrder ==
    /\ (Done /\ proved) => SelectionOrder(trace, 1, <<query>>)
    /\ (Done /\ program = GrandparentProgram /\ query = grandparent(john, emma)
          /\ max_depth >= GrandparentSteps)
         => (proved /\ trace = GrandparentTrace)

\* C8 witness: the grandparent proof has been returned
C8_Witness ==
    /\ Done /\ proved
    /\ program = GrandparentProgram /\ query = grandparent(john, emma)
    /\ Len(trace) = 6

\* C9 (as claimed): when a branch was aborted at the depth check and prove
\* returns proved = false, the returned trace holds the depth-limit line.
C9_DepthAnnotation ==
    (Done /\ ~proved /\ depth_hit)
        => \E k \in 1..Len(trace) : trace[k].kind = "Depth"

\* the trace returned by the last recursive call made for the top goal, or
\* the top goal's own Goal and Fail lines if no clause head unified with it
LastAttemptTrace(P, md, qy) ==
    LET tried == {k \in 1..Len(P) : unify_atoms(P[k].head, qy, EmptySubst).some}
    IN  IF tried = {}
        THEN <<GoalLine(qy), FailLine(qy)>>
        ELSE LET k == CHOOSE m \in tried : \A n \in tried : n <= m
                 u == unify_atoms(P[k].head, qy, EmptySubst)
             IN  dfs(P, md, NextGoals(P[k], <<qy>>), u.val, 1,
                     <<GoalLine(qy), MatchLine(P[k], u.val)>>).tr

\* C10 (as claimed): when prove returns proved = false the returned trace
\* is the trace of the last exhausted attempt, with that branch's Goal and
\* Matched lines and a final Fail line for the goal not resolved in it.
C10_TraceOnFailure ==
    (Done /\ ~proved /\ ~DepthExceeded(0, max_depth))
        => trace = LastAttemptTrace(program, max_depth, query)

----------------------------------------------------------------------------
\* C13 (as claimed): a call of dfs that is given an empty goal list reports
\* success, whatever its depth counter.
C13_EmptyGoalsSucceed ==
    [][(pc = "call" /\ Top.goals = <<>>) => (pc' = "ret" /\ ret'.res.some)]_vars

----------------------------------------------------------------------------
(* A caller of the unifier: it starts from the empty substitution, calls   *)
(* unify_terms or unify_atoms with the substitution it holds, and goes on  *)
(* with the result when there is one (as dfs does).  call records the last *)
(* call: its arguments, the substitution passed (before), that same dict   *)
(* as the caller sees it after the call (after), and the result.           *)

pair(x, y) == Atom("pair", <<x, y>>)

AtomUniverse ==
    { q0, p(ta), Atom("p", <<ta, tb>>),
      pair(ta, tb), pair(tX, tY), pair(tX, tX), pair(tY, ta) }

\* A plausible slip: the binding is written into the dict that was passed.
InputAfter_inplace(s, r) == IF r.some THEN r.val ELSE s

\* the dict passed as s, as the caller sees it after the call: unify_terms
\* and unify_atoms write only into copies (dict(s))
InputAfter(s, r) == s

UnifyInit ==
    /\ EngineIdle /\ ParseIdle /\ GraphIdle
    /\ held = EmptySubst
    /\ call = NoCall

CallUnifyTerms ==
    /\ \E a \in TermUniverse : \E b \in TermUniverse :
          LET r == unify_terms(a, b, held)
          IN  /\ call' = [fn |-> "unify_terms", t1 |-> a, t2 |-> b,
                          before |-> held, after |-> InputAfter(held, r), res |-> r]
              /\ held' = IF r.some THEN r.val ELSE InputAfter(held, r)
    /\ UNCHANGED <<engine_vars, parse_vars, graph_vars>>

CallUnifyAtoms ==
    /\ \E a1 \in AtomUniverse : \E a2 \in AtomUniverse :
          LET r == unify_atoms(a1, a2, held)
          IN  /\ call' = [fn |-> "unify_atoms", x |-> a1, y |-> a2,
                          examined |-> IF a1.pred /= a2.pred \/ Len(a1.args) /= Len(a2.args)
                                       THEN 0
                                       ELSE pairs_examined(a1.args, a2.args, 1, held),
                          before |-> held, after |-> InputAfter(held, r), res |-> r]
              /\ held' = IF r.some THEN r.val ELSE InputAfter(held, r)
    /\ UNCHANGED <<engine_vars, parse_vars, graph_vars>>

UnifyNext ==
    \/ CallUnifyTerms
    \/ CallUnifyAtoms

UnifySpec == UnifyInit /\ [][UnifyNext]_vars

Called == call.fn /= "none"

\* C14: unify_terms and unify_atoms leave the substitution passed to them
\* unchanged; a result contains every binding of the input with the same
\* value and adds bindings only for variables the input leaves unbound; a
\* failure returns no substitution, and the caller still holds its own.
C14_ExtendsNeverMutates ==
    Called =>
        /\ call.after = call.before
        /\ call.res.some =>
             /\ \A v \in DOMAIN call.before :
                    v \in DOMAIN call.res.val /\ call.res.val[v] = call.before[v]
             /\ \A v \in (DOMAIN call.res.val) \ (DOMAIN call.before) :
                    is_var(v) /\ apply_subst_term(v, call.before) = v
        /\ ~call.res.some => (call.res = None /\ held = call.before)

\* C14 witness: a call of unify_atoms on a non-empty substitution has added
\* a binding; and C14's failure case is reached by the same caller later
C14_Witness ==
    /\ Called /\ call.fn = "unify_atoms" /\ call.res.some
    /\ call.before /= EmptySubst
    /\ DOMAIN call.res.val /= DOMAIN call.before

\* following the bindings from t ends outside the keys of s within n steps
RECURSIVE ChainEnds(_, _, _)
ChainEnds(t, s, n) ==
    IF t \notin DOMAIN s THEN TRUE
    ELSE IF n = 0 THEN FALSE
    ELSE ChainEnds(s[t], s, n - 1)

WellFormedSubst(s) ==
    /\ \A v \in DOMAIN s : is_var(v) /\ s[v] /= v
    /\ \A v \in DOMAIN s : ChainEnds(v, s, Cardinality(DOMAIN s))
    /\ \A t \in TermUniverse : apply_subst_term(t, s) \notin DOMAIN s

\* C15: after any sequence of unify_terms / unify_atoms calls from the empty
\* substitution, the substitution has only variables as keys, binds no
\* variable to itself and has no binding cycle, so apply_subst_term ends at
\* a constant or an unbound variable.
C15_SubstInvariant ==
    /\ WellFormedSubst(held)
    /\ (Called /\ call.res.some) => WellFormedSubst(call.res.val)

\* C15 witness: a chain of two bindings is followed to a constant
C15_Witness ==
    \E v \in DOMAIN held :
        /\ held[v] \in DOMAIN held
        /\ ~is_var(held[held[v]])
        /\ apply_subst_term(v, held) = held[held[v]]

\* the substitution after the pairs before k have been unified in order
RECURSIVE Threaded(_, _, _, _)
Threaded(xs, ys, k, s) ==
    IF k = 1 THEN Some(s)
    ELSE LET before == Threaded(xs, ys, k - 1, s)
         IN  IF ~before.some THEN None
             ELSE unify_terms(xs[k - 1], ys[k - 1], before.val)

\* pair k resolves under the threaded substitution to two distinct constants
Clash(xs, ys, k, s) ==
    LET th == Threaded(xs, ys, k, s)
    IN  /\ th.some
        /\ LET u == apply_subst_term(xs[k], th.val)
               v == apply_subst_term(ys[k], th.val)
           IN  ~is_var(u) /\ ~is_var(v) /\ u /= v

\* C16: unify_atoms returns None when the predicate names or the arities
\* differ or a pair of arguments resolves under the threaded substitution
\* to two distinct constants; otherwise it returns a substitution under
\* which both atoms resolve to the same atom; pairs are taken left to
\* right and none is examined after the first that fails.
C16_UnifierCorrect ==
    (Called /\ call.fn = "unify_atoms") =>
        LET a1 == call.x
            a2 == call.y
            shape == a1.pred = a2.pred /\ Len(a1.args) = Len(a2.args)
            clashes == IF shape
                       THEN {k \in 1..Len(a1.args) : Clash(a1.args, a2.args, k, call.before)}
                       ELSE {}
        IN  /\ ~call.res.some <=> (~shape \/ clashes /= {})
            /\ call.res.some =>
                 apply_subst_atom(a1, call.res.val) = apply_subst_atom(a2, call.res.val)
            /\ ~shape => call.examined = 0
            /\ (shape /\ clashes = {}) => call.examined = Len(a1.args)
            /\ (shape /\ clashes /= {}) =>
                 /\ call.examined = MinOf(clashes)
                 /\ call.examined < Len(a1.args) \/ MinOf(clashes) = Len(a1.args)

\* C16 witness: the first pair of a two-argument call has failed on two
\* distinct constants reached through a binding, and the second pair was
\* not examined
C16_Witness ==
    /\ Called /\ call.fn = "unify_atoms" /\ ~call.res.some
    /\ call.x.pred = call.y.pred /\ Len(call.x.args) = 2 /\ Len(call.y.args) = 2
    /\ call.before /= EmptySubst
    /\ is_var(call.x.args[1]) \/ is_var(call.y.args[1])
    /\ call.examined = 1

----------------------------------------------------------------------------
(* The parser.  A text is a sequence of one-character strings; the str     *)
(* methods the parser uses are operators on such sequences.                *)

Whitespace == {" ", "\n"}

MaxOf(S) == CHOOSE x \in S : \A y \in S : x >= y

RECURSIVE Concat(_)
Concat(ts) == IF ts = <<>> THEN <<>> ELSE Head(ts) \o Concat(Tail(ts))

\* str.find(sep) + 1: the first position of sep in t, 0 when absent
find(t, sep) ==
    LET hits == {i \in 1..(Len(t) - Len(sep) + 1) : SubSeq(t, i, i + Len(sep) - 1) = sep}
    IN  IF hits = {} THEN 0 ELSE MinOf(hits)

\* str.rfind(sep) + 1
rfind(t, sep) ==
    LET hits == {i \in 1..(Len(t) - Len(sep) + 1) : SubSeq(t, i, i + Len(sep) - 1) = sep}
    IN  IF hits = {} THEN 0 ELSE MaxOf(hits)

RECURSIVE lstrip(_, _)
lstrip(t, cs) == IF t /= <<>> /\ Head(t) \in cs THEN lstrip(Tail(t), cs) ELSE t

RECURSIVE rstrip(_, _)
rstrip(t, cs) ==
    IF t /= <<>> /\ t[Len(t)] \in cs THEN rstrip(SubSeq(t, 1, Len(t) - 1), cs) ELSE t

strip(t) == rstrip(lstrip(t, Whitespace), Whitespace)

\* str.split(sep): every occurrence cuts, empty pieces are kept
RECURSIVE split(_, _)
split(t, sep) ==
    LET k == find(t, sep)
    IN  IF k = 0 THEN <<t>>
        ELSE <<SubSeq(t, 1, k - 1)>> \o split(SubSeq(t, k + Len(sep), Len(t)), sep)

\* str.splitlines(): no line for the empty text or after a final newline
RECURSIVE splitlines(_)
splitlines(t) ==
    LET k == find(t, <<"\n">>)
    IN  IF t = <<>> THEN <<>>
        ELSE IF k = 0 THEN <<t>>
        ELSE <<SubSeq(t, 1, k - 1)>> \o splitlines(SubSeq(t, k + 1, Len(t)))

\* [x.strip() for x in xs if x.strip()]
RECURSIVE stripped_nonblank(_)
stripped_nonblank(xs) ==
    IF xs = <<>> THEN <<>>
    ELSE IF strip(Head(xs)) = <<>> THEN stripped_nonblank(Tail(xs))
    ELSE <<strip(Head(xs))>> \o stripped_nonblank(Tail(xs))

_split_args(arg_str) == stripped_nonblank(split(arg_str, <<",">>))

_parse_atom(text0) ==
    LET text == rstrip(strip(text0), {"."})
        k == find(text, <<"(">>)
        pred == SubSeq(text, 1, k - 1)
        rest == SubSeq(text, k + 1, Len(text))
        r == rfind(rest, <<")">>)
        args == IF r = 0 THEN rest ELSE SubSeq(rest, 1, r - 1)
    IN  IF k = 0 THEN Atom(text, <<>>)
        ELSE Atom(strip(pred), _split_args(args))

\* the for loop of _split_body from character i on, and the code after it
RECURSIVE scan_body(_, _, _, _, _)
scan_body(body, i, parts, cur, depth) ==
    IF i > Len(body)
    THEN LET last == strip(cur)
         IN  IF last /= <<>> THEN Append(parts, last) ELSE parts
    ELSE LET ch == body[i]
             d == IF ch = "(" THEN depth + 1 ELSE IF ch = ")" THEN depth - 1 ELSE depth
         IN  IF ch = "," /\ d = 0
             THEN scan_body(body, i + 1, Append(parts, strip(cur)), <<>>, d)
             ELSE scan_body(body, i + 1, parts, Append(cur, ch), d)

_split_body(body) == scan_body(body, 1, <<>>, <<>>, 0)

\* the body of the for loop of parse_program for a line that is kept
parse_line(line) ==
    LET k == find(line, <<":", "-">>)
        head_txt == SubSeq(line, 1, k - 1)
        body_txt == SubSeq(line, k + 2, Len(line))
        xs == _split_body(rstrip(strip(body_txt), {"."}))
    IN  IF k > 0
        THEN Rule(_parse_atom(strip(head_txt)), [j \in 1..Len(xs) |-> _parse_atom(xs[j])])
        ELSE Rule(_parse_atom(line), <<>>)

RECURSIVE parse_lines(_)
parse_lines(raws) ==
    IF raws = <<>> THEN <<>>
    ELSE LET line == strip(Head(raws))
         IN  IF line = <<>> \/ Head(line) = "%"
             THEN parse_lines(Tail(raws))
             ELSE <<parse_line(line)>> \o parse_lines(Tail(raws))

parse_program(program_text) == parse_lines(splitlines(program_text))

\* the copy of the atom parser in logiclm_chain.py and langgraph_app.py
_parse_query_atom(q0text) ==
    LET q == rstrip(strip(q0text), {"."})
        k == find(q, <<"(">>)
        pred == SubSeq(q, 1, k - 1)
        rest == SubSeq(q, k + 1, Len(q))
        r == rfind(rest, <<")">>)
        args == IF r = 0 THEN rest ELSE SubSeq(rest, 1, r - 1)
    IN  IF k = 0 THEN Atom(q, <<>>)
        ELSE Atom(strip(pred), stripped_nonblank(split(args, <<",">>)))

----------------------------------------------------------------------------
(* The solver wrappers.  The program and query handed to them come out of  *)
(* a JSON parser, so each is a string (Str) or some other JSON value, for  *)
(* which null stands here (NotStr).                                        *)

Str(text) == [str |-> TRUE, text |-> text]

NotStr == [str |-> FALSE]

\* max_depth: int = 50, the default prove gets from both wrappers
DefaultMaxDepth == 50

\* str(e) of the AttributeError raised by None.splitlines() / None.strip()
NoSplitlines == "'NoneType' object has no attribute 'splitlines'"

NoStrip == "'NoneType' object has no attribute 'strip'"

Solved(ok, tr, error) == [ok |-> ok, trace |-> tr, error |-> error]

\* the try block shared by _run_solver and solve
try_solve(program_v, query_v) ==
    IF ~program_v.str THEN Solved(FALSE, <<>>, Some(NoSplitlines))
    ELSE IF ~query_v.str THEN Solved(FALSE, <<>>, Some(NoStrip))
    ELSE LET r == prove(parse_program(program_v.text), _parse_query_atom(query_v.text),
                        DefaultMaxDepth)
         IN  Solved(r.proved, r.trace, None)

\* _run_solver(payload) for a string query; for any other query value the
\* call payload["query"].strip() before the try block raises
_run_solver(pl) ==
    try_solve(pl.program, Str(rstrip(strip(pl.query.text), {"."}) \o <<".">>))

solve(state) == try_solve(state.program, state.query)

MaxTokens == 3

MaxBody == 4

ProgramTokens ==
    { <<"p">>, <<"(", "a">>, <<")">>, <<",">>, <<".">>, <<"\n">>, <<"%">> }

BodyTokens ==
    { <<"p">>, <<"p", "(", "a", ",", "b">>, <<"(">>, <<")">>, <<",">>, <<" ">> }

SeqsUpTo(S, n) == UNION {[1..k -> S] : k \in 0..n}

\* program texts: any short sequence of program tokens (fact lines, comments,
\* blank lines), and one rule line q:-<body> for any short sequence of body
\* tokens
ProgramTexts ==
    {Concat(ts) : ts \in SeqsUpTo(ProgramTokens, MaxTokens)}
        \cup {<<"q", ":", "-">> \o Concat(ts) : ts \in SeqsUpTo(BodyTokens, MaxBody)}

QueryValues == { Str(<<"p">>), Str(<<"q">>), Str(<<"p", "(", "a">>), Str(<<>>), NotStr }

Returned(fn, raised, value) == [fn |-> fn, raised |-> raised, value |-> value]

ParseInit ==
    /\ EngineIdle /\ UnifyIdle /\ GraphIdle
    /\ payload \in [program : {Str(x) : x \in ProgramTexts} \cup {NotStr}, query : QueryValues]
    /\ out = NoCall

CallParseProgram ==
    /\ out = NoCall
    /\ out' = IF payload.program.str
              THEN Returned("parse_program", FALSE, parse_program(payload.program.text))
              ELSE Returned("parse_program", TRUE, NoSplitlines)
    /\ UNCHANGED <<payload, engine_vars, unify_vars, graph_vars>>

CallParseQueryAtom ==
    /\ out = NoCall
    /\ out' = IF payload.query.str
              THEN Returned("_parse_query_atom", FALSE, _parse_query_atom(payload.query.text))
              ELSE Returned("_parse_query_atom", TRUE, NoStrip)
    /\ UNCHANGED <<payload, engine_vars, unify_vars, graph_vars>>

CallRunSolver ==
    /\ out = NoCall
    /\ out' = IF payload.query.str
              THEN Returned("_run_solver", FALSE, _run_solver(payload))
              ELSE Returned("_run_solver", TRUE, NoStrip)
    /\ UNCHANGED <<payload, engine_vars, unify_vars, graph_vars>>

CallSolve ==
    /\ out = NoCall
    /\ out' = Returned("solve", FALSE, solve(payload))
    /\ UNCHANGED <<payload, engine_vars, unify_vars, graph_vars>>

ParseNext ==
    \/ CallParseProgram
    \/ CallParseQueryAtom
    \/ CallRunSolver
    \/ CallSolve

ParseSpec == ParseInit /\ [][ParseNext]_vars

----------------------------------------------------------------------------
(* What the specification calls malformed text.                            *)

Count(t, c) == Cardinality({i \in 1..Len(t) : t[i] = c})

\* "(" minus ")" among the first i characters
DepthAt(t, i) == Count(SubSeq(t, 1, i), "(") - Count(SubSeq(t, 1, i), ")")

Balanced(t) == DepthAt(t, Len(t)) = 0 /\ \A i \in 1..Len(t) : DepthAt(t, i) >= 0

TopLevelCommas(t) == {i \in 1..Len(t) : t[i] = "," /\ DepthAt(t, i) = 0}

\* the pieces of t between the positions in cuts
RECURSIVE CutAt(_, _, _)
CutAt(t, from, cuts) ==
    IF cuts = {} THEN <<SubSeq(t, from, Len(t))>>
    ELSE LET k == MinOf(cuts)
         IN  <<SubSeq(t, from, k - 1)>> \o CutAt(t, k + 1, cuts \ {k})

\* the top-level comma-separated segments of a body text (none for a blank one)
Segments(body) ==
    IF strip(body) = <<>> THEN <<>> ELSE CutAt(body, 1, TopLevelCommas(body))

EmptyAtomText(text) == rstrip(strip(text), {"."}) = <<>>

IsRuleLine(line) == find(line, <<":", "-">>) > 0

HeadText(line) == SubSeq(line, 1, find(line, <<":", "-">>) - 1)

BodyText(line) ==
    rstrip(strip(SubSeq(line, find(line, <<":", "-">>) + 2, Len(line))), {"."})

MalformedLine(line) ==
    \/ ~Balanced(line)
    \/ IF IsRuleLine(line)
       THEN \/ EmptyAtomText(HeadText(line))
            \/ \E k \in 1..Len(Segments(BodyText(line))) :
                   EmptyAtomText(Segments(BodyText(line))[k])
       ELSE EmptyAtomText(line)

\* the lines parse_program does not skip
ClauseLines(text) ==
    {strip(l) : l \in {x \in Range(splitlines(text)) :
                          strip(x) /= <<>> /\ Head(strip(x)) /= "%"}}

MalformedProgram(text) == \E line \in ClauseLines(text) : MalformedLine(line)

MalformedAtom(text) == EmptyAtomText(text) \/ ~Balanced(text)

AtomsOut(rules) == UNION {AtomsOfRule(rules[k]) : k \in 1..Len(rules)}

\* C11 (as claimed): parse_program and the atom parser raise an error and
\* return nothing when an atom text is empty after trimming or a line has
\* unbalanced parentheses, and no atom they return has an empty predicate
\* name.
C11_ParseErrors ==
    /\ (out.fn = "parse_program" /\ payload.program.str) =>
          /\ MalformedProgram(payload.program.text) => out.raised
          /\ ~out.raised => \A a \in AtomsOut(out.value) : a.pred /= <<>>
    /\ (out.fn = "_parse_query_atom" /\ payload.query.str) =>
          /\ MalformedAtom(payload.query.text) => out.raised
          /\ ~out.raised => out.value.pred /= <<>>

\* C12 (as claimed): the result of _run_solver and of solve has an error
\* whenever the program text or the query text is malformed, and has no
\* error together with ok = false only for well-formed text.
C12_ErrorOnMalformed ==
    (out.fn \in {"_run_solver", "solve"} /\ payload.program.str /\ payload.query.str) =>
        LET bad == MalformedProgram(payload.program.text) \/ MalformedAtom(payload.query.text)
        IN  /\ bad => out.value.error.some
            /\ (~out.value.error.some /\ ~out.value.ok) => ~bad

\* C17 (as claimed): the body atoms of a rule line are the atoms of the
\* top-level comma-separated segments of its body text, one atom for each
\* segment, in the order of the text.
C17_BodySplit ==
    (out.fn = "parse_program" /\ payload.program.str) =>
        \A line \in ClauseLines(payload.program.text) :
            (Len(out.value) = 1 /\ IsRuleLine(line)) =>
                LET segs == Segments(BodyText(line))
                IN  out.value[1].body = [k \in 1..Len(segs) |-> _parse_atom(segs[k])]

----------------------------------------------------------------------------
(* The graph of build_langgraph_app.  lg is the LGState dict: a key that   *)
(* is absent holds None, a key that is present holds Some(value), except   *)
(* error, where state.get("error") reads an absent key and a stored None   *)
(* alike.  The keys question and relevance_reason are written but never    *)
(* read by a node or a router and are left out.  at is the node the run    *)
(* is about to execute; visits counts the executions of solve and refine.  *)
(* The retriever and the language model are outside the repository: what   *)
(* they return is any value of the shape the node reads.                   *)

\* state.get(key, default)
get(field, default) == IF field.some THEN field.val ELSE default

\* k = state.get("k", 8)
Default_k == 8

\* return {**state, "k": 16}
More_k == 16

\* counters stop growing here
MaxVisits == 3

Fact_pa == <<"p", "(", "a", ")", ".">>

Rule_q_pa == <<"q", ":", "-", "p", "(", "a", ")", ".">>

\* the snippets the retriever may return for the question, in rank order
DocLists == SeqsUpTo({Fact_pa, Rule_q_pa}, 2)

\* the text of the knowledge-base file
full_kb_text == <<"%", "\n">> \o Fact_pa \o <<"\n", "\n", " ">> \o Rule_q_pa

\* "\n".join(xs)
RECURSIVE join(_)
join(xs) ==
    IF xs = <<>> THEN <<>>
    ELSE IF Len(xs) = 1 THEN Head(xs)
    ELSE Head(xs) \o <<"\n">> \o join(Tail(xs))

\* [line.strip() for line in lines if line.strip() and not line.strip().startswith("%")]
RECURSIVE kb_lines(_)
kb_lines(lines) ==
    IF lines = <<>> THEN <<>>
    ELSE LET line == strip(Head(lines))
         IN  IF line = <<>> \/ Head(line) = "%"
             THEN kb_lines(Tail(lines))
             ELSE <<line>> \o kb_lines(Tail(lines))

\* the JSON objects the model may answer to the formulate and refine prompts
Attempts ==
    [program : {Str(Fact_pa), Str(<<"p", "(", "a">>), NotStr}, query : QueryValues]

\* the lines kept of the knowledge-base file (it is read once, when the graph
\* is built)
full_kb_list == kb_lines(splitlines(full_kb_text))

\* docs[:k]
first_k(docs, k) == SubSeq(docs, 1, IF Len(docs) < k THEN Len(docs) ELSE k)

retrieve(state, docs) ==
    LET kb_list == IF use_real_llm THEN first_k(docs, get(state.k, Default_k))
                   ELSE full_kb_list
    IN  [state EXCEPT !.kb_list = Some(kb_list), !.kb = Some(join(kb_list))]

judge_relevance(state, data) == [state EXCEPT !.relevant = Some(data)]

retrieve_more(state) == [state EXCEPT !.k = Some(More_k)]

formulate(state, data) ==
    [state EXCEPT !.program = Some(IF use_real_llm THEN data.program ELSE Str(state.kb.val)),
                  !.query = Some(data.query)]

\* the programs and queries a run can hand to solve
Solvable ==
    [program : {Str(join(first_k(docs, Default_k))) : docs \in DocLists}
                   \cup {Str(join(full_kb_list))} \cup {a.program : a \in Attempts},
     query : QueryValues]

\* solve is a function of state["program"] and state["query"] alone: its
\* graph on Solvable
solved == {<<pl, solve(pl)>> : pl \in Solvable}

solve_node(state) ==
    LET pl == [program |-> state.program.val, query |-> state.query.val]
        r == (CHOOSE pr \in solved : pr[1] = pl)[2]
    IN  [state EXCEPT !.ok = Some(r.ok), !.trace = Some(r.trace), !.error = r.error]

\* A plausible slip: refine does not record that it ran.
refine_forgetful(state, data) ==
    [state EXCEPT !.program = Some(data.program), !.query = Some(data.query)]

refine(state, data) ==
    [state EXCEPT !.program = Some(data.program), !.query = Some(data.query),
                  !.refined = Some(TRUE)]

route_relevance(state) ==
    IF get(state.relevant, TRUE) THEN "formulate" ELSE "retrieve_more"

\* a str is true unless it is empty; None is false
Truthy(error) == error.some /\ error.val /= ""

route_solver(state) ==
    IF Truthy(state.error) /\ ~get(state.refined, FALSE) THEN "refine" ELSE "END"

Counted(n) == IF n < MaxVisits THEN n + 1 ELSE n

\* the caller passes the question, and may pass refined
GraphInit ==
    /\ EngineIdle /\ UnifyIdle /\ ParseIdle
    /\ use_real_llm \in BOOLEAN
    /\ \E r \in {None, Some(FALSE), Some(TRUE)} :
          lg = [kb_list |-> None, kb |-> None, k |-> None, relevant |-> None,
                program |-> None, query |-> None, ok |-> None, trace |-> None,
                error |-> None, refined |-> r]
    /\ at = "START"
    /\ visits = [solve |-> 0, refine |-> 0]

Start ==
    /\ at = "START"
    /\ at' = "retrieve"
    /\ UNCHANGED <<use_real_llm, lg, visits, engine_vars, unify_vars, parse_vars>>

Retrieve ==
    /\ at = "retrieve"
    /\ \E docs \in DocLists : lg' = retrieve(lg, docs)
    /\ at' = "judge_relevance"
    /\ UNCHANGED <<use_real_llm, visits, engine_vars, unify_vars, parse_vars>>

JudgeRelevance ==
    /\ at = "judge_relevance"
    /\ \E data \in BOOLEAN : lg' = judge_relevance(lg, data)
    /\ at' = route_relevance(lg')
    /\ UNCHANGED <<use_real_llm, visits, engine_vars, unify_vars, parse_vars>>

RetrieveMore ==
    /\ at = "retrieve_more"
    /\ lg' = retrieve_more(lg)
    /\ at' = "retrieve"
    /\ UNCHANGED <<use_real_llm, visits, engine_vars, unify_vars, parse_vars>>

Formulate ==
    /\ at = "formulate"
    /\ \E data \in Attempts : lg' = formulate(lg, data)
    /\ at' = "solve"
    /\ UNCHANGED <<use_real_llm, visits, engine_vars, unify_vars, parse_vars>>

Solve ==
    /\ at = "solve"
    /\ lg' = solve_node(lg)
    /\ visits' = [visits EXCEPT !.solve = Counted(@)]
    /\ at' = route_solver(lg')
    /\ UNCHANGED <<use_real_llm, engine_vars, unify_vars, parse_vars>>

Refine ==
    /\ at = "refine"
    /\ \E data \in Attempts : lg' = refine(lg, data)
    /\ visits' = [visits EXCEPT !.refine = Counted(@)]
    /\ at' = "solve"
    /\ UNCHANGED <<use_real_llm, engine_vars, unify_vars, parse_vars>>

GraphNext ==
    \/ Start
    \/ Retrieve
    \/ JudgeRelevance
    \/ RetrieveMore
    \/ Formulate
    \/ Solve
    \/ Refine

\* the graph runtime runs the next node as long as there is one
GraphSpec == GraphInit /\ [][GraphNext]_vars /\ WF_vars(GraphNext)

\* C18: the run is about to execute refine only with a solve result that
\* has an error and with refined false, and has ended only with any other
\* solve result (so a result of not proved with error = null ends the run);
\* once refine has run, refined is true, and refine is followed by solve;
\* refine runs at most once and solve at most twice; a run that reaches
\* formulate reaches END.
C18_RefineAtMostOnce ==
    /\ [](/\ at = "refine" => (Truthy(lg.error) /\ ~get(lg.refined, FALSE))
          /\ at = "END" => ~(Truthy(lg.error) /\ ~get(lg.refined, FALSE))
          /\ (at \in {"refine", "END"} /\ ~lg.ok.val /\ lg.error = None) => at = "END"
          /\ visits.refine > 0 => lg.refined = Some(TRUE)
          /\ visits.refine <= 1 /\ visits.solve <= 2)
    /\ (at = "refine") ~> (at = "solve" /\ lg.refined = Some(TRUE))
    /\ (at = "formulate") ~> (at = "END")

\* C18 witness: a run has ended after solve, refine, and solve again
C18_Witness ==
    /\ at = "END" /\ visits.refine = 1 /\ visits.solve = 2
    /\ get(lg.refined, FALSE)

\* C19 (as claimed): every run of the graph reaches END, whatever the
\* relevance judgments are.
C19_ReachesEnd == <>(at = "END")

====
